---------------------------- MODULE Spec2Model ----------------------------
(***************************************************************************)
(* A model of scripts/schema_creator.py (src/scripty.py): the Loader       *)
(* (extract_first_dict_schema), the Locator (locate_properties), the       *)
(* Merger (compare_and_merge_schemas), the Rebuilder                       *)
(* (build_combined_schema_from_first) and main's pipeline with its output  *)
(* safety check and pprint serialisation.                                  *)
(*                                                                         *)
(* Python values are records of one shape, so that any two can be          *)
(* compared.  Mutable containers (dict, list) live in a heap and are       *)
(* referred to by address, so that aliasing and in-place mutation are      *)
(* visible.  Source text is a sequence of lexical tokens.                  *)
(***************************************************************************)
EXTENDS Integers, Sequences, FiniteSets, TLC

(***************************************************************************)
(* Python values.  t is the type tag; s, n, keys, items carry the payload. *)
(* A float is held in tenths (n = 15 is 1.5); s = "inf" marks an infinity  *)
(* of sign n.  A dict is two parallel sequences in insertion order.        *)
(***************************************************************************)
Val(t, s, n, keys, items) ==
    [t |-> t, s |-> s, n |-> n, keys |-> keys, items |-> items]

VNone == Val("none", "", 0, <<>>, <<>>)

VBool(b) == Val("bool", "", IF b THEN 1 ELSE 0, <<>>, <<>>)

VInt(n) == Val("int", "", n, <<>>, <<>>)

VFloat(tenths) == Val("float", "fin", tenths, <<>>, <<>>)

VInf(sign) == Val("float", "inf", sign, <<>>, <<>>)

VStr(s) == Val("str", s, 0, <<>>, <<>>)

VList(items) == Val("list", "", 0, <<>>, items)

VDict(keys, items) == Val("dict", "", 0, keys, items)

VRef(addr) == Val("ref", "", addr, <<>>, <<>>)

EmptyDict == VDict(<<>>, <<>>)

IsContainer(v) == v.t \in {"list", "dict"}

IsNumber(v) == v.t \in {"bool", "int", "float"}

(***************************************************************************)
(* Pure dict operations (insertion ordered, keys are strings).             *)
(***************************************************************************)
SeqToSet(q) == {q[i] : i \in 1..Len(q)}

KeyIndex(keys, k) == CHOOSE i \in 1..Len(keys) : keys[i] = k

HasKey(d, k) == d.t = "dict" /\ k \in SeqToSet(d.keys)

GetV(d, k) == d.items[KeyIndex(d.keys, k)]

\* d[k] = v : an existing key keeps its position, a new key goes last.
PutV(d, k, v) ==
    IF k \in SeqToSet(d.keys)
    THEN [d EXCEPT !.items[KeyIndex(d.keys, k)] = v]
    ELSE [d EXCEPT !.keys = Append(d.keys, k), !.items = Append(d.items, v)]

(***************************************************************************)
(* Python's == on values: numbers compare by numeric value across bool,    *)
(* int and float; lists element-wise; dicts by key set and per-key value,  *)
(* whatever the insertion order.                                           *)
(***************************************************************************)
NumTenths(v) == IF v.t = "float" THEN v.n ELSE 10 * v.n

RECURSIVE PyEq(_, _)
PyEq(a, b) ==
    IF IsNumber(a) /\ IsNumber(b)
    THEN LET infA == (a.t = "float" /\ a.s = "inf")
             infB == (b.t = "float" /\ b.s = "inf")
         IN  IF infA \/ infB
             THEN infA /\ infB /\ a.n = b.n
             ELSE NumTenths(a) = NumTenths(b)
    ELSE IF a.t # b.t THEN FALSE
    ELSE IF a.t = "none" THEN TRUE
    ELSE IF a.t = "str" THEN a.s = b.s
    ELSE IF a.t = "list"
         THEN Len(a.items) = Len(b.items)
              /\ \A i \in 1..Len(a.items) : PyEq(a.items[i], b.items[i])
    ELSE IF a.t = "dict"
         THEN SeqToSet(a.keys) = SeqToSet(b.keys)
              /\ \A k \in SeqToSet(a.keys) : PyEq(GetV(a, k), GetV(b, k))
    ELSE a = b

(***************************************************************************)
(* sorted() on a set of string keys: Python orders strings by code point.  *)
(* KeyOrder lists the key names the model uses in that order.              *)
(***************************************************************************)
KeyOrder ==
    << "a", "b", "description", "fmt", "name", "properties", "schema",
       "type", "x", "y" >>

Rank(k) == CHOOSE i \in 1..Len(KeyOrder) : KeyOrder[i] = k

RECURSIVE Sorted(_)
Sorted(S) ==
    IF S = {} THEN <<>>
    ELSE LET m == CHOOSE k \in S : \A o \in S : Rank(k) <= Rank(o)
         IN  <<m>> \o Sorted(S \ {m})

(***************************************************************************)
(* The heap of mutable containers.  A stored container's items are atoms   *)
(* or references.  Store allocates a value, the containers inside it       *)
(* first and the value itself last; Deref reads the whole value back.      *)
(***************************************************************************)
RECURSIVE Sum(_)
Sum(q) == IF q = <<>> THEN 0 ELSE Head(q) + Sum(Tail(q))

RECURSIVE Flatten(_)
Flatten(qs) == IF qs = <<>> THEN <<>> ELSE Head(qs) \o Flatten(Tail(qs))

\* The number of containers in v, v included.
RECURSIVE Size(_)
Size(v) ==
    IF IsContainer(v)
    THEN 1 + Sum([k \in 1..Len(v.items) |-> Size(v.items[k])])
    ELSE 0

\* The containers of v as heap objects, when base objects are allocated.
RECURSIVE Objects(_, _)
Objects(v, base) ==
    IF ~IsContainer(v) THEN <<>>
    ELSE LET n == Len(v.items)
             sizes == [k \in 1..n |-> Size(v.items[k])]
             last(k) == base + Sum(SubSeq(sizes, 1, k))
             stored ==
                 [k \in 1..n |->
                     IF IsContainer(v.items[k]) THEN VRef(last(k)) ELSE v.items[k]]
         IN  Flatten([k \in 1..n |-> Objects(v.items[k], last(k - 1))])
             \o << [v EXCEPT !.items = stored] >>

\* A result is [heap, val]: the new heap and the stored value.
Store(h, v) ==
    [heap |-> h \o Objects(v, Len(h)),
     val |-> IF IsContainer(v) THEN VRef(Len(h) + Size(v)) ELSE v]

RECURSIVE Deref(_, _)
Deref(h, v) ==
    IF v.t = "ref"
    THEN [h[v.n] EXCEPT
             !.items = [k \in 1..Len(h[v.n].items) |-> Deref(h, h[v.n].items[k])]]
    ELSE v

\* isinstance(v, dict)
IsDict(h, v) == v.t = "ref" /\ h[v.n].t = "dict"

\* key in d
DictHas(h, d, k) == k \in SeqToSet(h[d.n].keys)

\* d[key]
DictGet(h, d, k) == GetV(h[d.n], k)

\* d[key] = v, in place
DictSet(h, d, k, v) == [h EXCEPT ![d.n] = PutV(h[d.n], k, v)]

\* == on two heap values
HeapEq(h, a, b) == PyEq(Deref(h, a), Deref(h, b))

(***************************************************************************)
(* Source text as lexical tokens: k is the token kind ("op", "name",       *)
(* "str", "num", "nl"), s its text, v the value of a number token.         *)
(* Layout (blanks, line breaks inside brackets, comments) is not a token.  *)
(***************************************************************************)
Tok(k, s, v) == [k |-> k, s |-> s, v |-> v]

Op(s) == Tok("op", s, VNone)

NameTok(s) == Tok("name", s, VNone)

StrTok(s) == Tok("str", s, VNone)

NumTok(v) == Tok("num", "", v)

NL == Tok("nl", "", VNone)

IsOp(ts, s) == ts # <<>> /\ Head(ts).k = "op" /\ Head(ts).s = s

\* A number without its sign, and the sign.
Negate(v) ==
    IF v.t = "float" /\ v.s = "inf" THEN VInf(0 - v.n) ELSE [v EXCEPT !.n = 0 - v.n]

IsNegative(v) == v.n < 0

(***************************************************************************)
(* repr() of an atom, as the tokens a lexer reads from its text: a         *)
(* negative number is a minus sign and a number; an infinite float prints  *)
(* as the bare word inf, which is a name.                                  *)
(***************************************************************************)
Repr(v) ==
    IF v.t = "none" THEN <<NameTok("None")>>
    ELSE IF v.t = "bool" THEN <<NameTok(IF v.n = 1 THEN "True" ELSE "False")>>
    ELSE IF v.t = "str" THEN <<StrTok(v.s)>>
    ELSE LET sign == IF IsNegative(v) THEN <<Op("-")>> ELSE <<>>
             mag  == IF IsNegative(v) THEN Negate(v) ELSE v
         IN  IF v.t = "float" /\ v.s = "inf"
             THEN sign \o <<NameTok("inf")>>
             ELSE sign \o <<NumTok(mag)>>

(***************************************************************************)
(* pprint.pformat(value, indent=4, sort_dicts=...): containers print       *)
(* their items between brackets, separated by commas, a dict's entries in  *)
(* insertion order unless sort_dicts.                                      *)
(***************************************************************************)
\* The parts of a display, with a comma between two parts.
CommaSeparated(parts) ==
    Flatten([i \in 1..Len(parts) |->
                 parts[i] \o (IF i < Len(parts) THEN <<Op(",")>> ELSE <<>>)])

RECURSIVE PFormat(_, _)
PFormat(v, sort_dicts) ==
    CASE v.t = "list" ->
             <<Op("[")>>
             \o CommaSeparated([i \in 1..Len(v.items) |-> PFormat(v.items[i], sort_dicts)])
             \o <<Op("]")>>
      [] v.t = "dict" ->
             LET keys == IF sort_dicts THEN Sorted(SeqToSet(v.keys)) ELSE v.keys
             IN  <<Op("{")>>
                 \o CommaSeparated(
                        [i \in 1..Len(keys) |->
                            <<StrTok(keys[i]), Op(":")>>
                            \o PFormat(GetV(v, keys[i]), sort_dicts)])
                 \o <<Op("}")>>
      [] OTHER -> Repr(v)

(***************************************************************************)
(* ast.parse: tokens to syntax trees.  A node has a kind k ("Constant",    *)
(* "Name", "Attribute", "Call", "UnaryOp", "List", "Dict"), an identifier  *)
(* s, a constant v, and child nodes (a Dict's keys and values in keys and  *)
(* kids).  A parse result is [ok, node, rest].                             *)
(***************************************************************************)
Node(k, s, v, keys, kids) == [k |-> k, s |-> s, v |-> v, keys |-> keys, kids |-> kids]

NoNode == Node("", "", VNone, <<>>, <<>>)

ParseFail == [ok |-> FALSE, node |-> NoNode, rest |-> <<>>]

ParseOk(node, rest) == [ok |-> TRUE, node |-> node, rest |-> rest]

\* The node of a one-token atom: a number, a string, a keyword constant or
\* a name.
AtomNode(t) ==
    CASE t.k = "num" -> Node("Constant", "", t.v, <<>>, <<>>)
      [] t.k = "str" -> Node("Constant", "", VStr(t.s), <<>>, <<>>)
      [] t.k = "name" /\ t.s = "None" -> Node("Constant", "", VNone, <<>>, <<>>)
      [] t.k = "name" /\ t.s = "True" -> Node("Constant", "", VBool(TRUE), <<>>, <<>>)
      [] t.k = "name" /\ t.s = "False" -> Node("Constant", "", VBool(FALSE), <<>>, <<>>)
      [] OTHER -> Node("Name", t.s, VNone, <<>>, <<>>)

\* A minus sign before a parsed operand.
Minus(r) ==
    IF r.ok THEN ParseOk(Node("UnaryOp", "-", VNone, <<>>, <<r.node>>), r.rest)
    ELSE ParseFail

EntryFail == [ok |-> FALSE, key |-> NoNode, value |-> NoNode, rest |-> <<>>]

RECURSIVE ParseExpr(_)
RECURSIVE ParseTrailers(_, _)
RECURSIVE ParseListItems(_, _)
RECURSIVE ListItemsAfter(_, _)
RECURSIVE ParseEntry(_)
RECURSIVE EntryAfterKey(_)
RECURSIVE ParseDictItems(_, _, _)
RECURSIVE DictItemsAfter(_, _, _)
\* After an atom: a call f() or an attribute x.y, any number of times.
ParseTrailers(node, ts) ==
    CASE IsOp(ts, "(") /\ IsOp(Tail(ts), ")") ->
             ParseTrailers(Node("Call", "", VNone, <<>>, <<node>>), Tail(Tail(ts)))
      [] IsOp(ts, ".") /\ Len(ts) >= 2 /\ ts[2].k = "name" ->
             ParseTrailers(Node("Attribute", ts[2].s, VNone, <<>>, <<node>>),
                           Tail(Tail(ts)))
      [] OTHER -> ParseOk(node, ts)

\* The items of a list display, after "[" and the items in acc.
ParseListItems(ts, acc) ==
    IF IsOp(ts, "]") THEN ParseOk(Node("List", "", VNone, <<>>, acc), Tail(ts))
    ELSE ListItemsAfter(ParseExpr(ts), acc)

\* The list display goes on after the item parsed as r.
ListItemsAfter(r, acc) ==
    CASE ~r.ok -> ParseFail
      [] IsOp(r.rest, ",") -> ParseListItems(Tail(r.rest), Append(acc, r.node))
      [] IsOp(r.rest, "]") ->
             ParseOk(Node("List", "", VNone, <<>>, Append(acc, r.node)), Tail(r.rest))
      [] OTHER -> ParseFail

\* The entry whose key was parsed as k, with its value parsed as v.
EntryAfterValue(k, v) ==
    IF ~v.ok THEN EntryFail
    ELSE [ok |-> TRUE, key |-> k.node, value |-> v.node, rest |-> v.rest]

EntryAfterKey(k) ==
    IF ~k.ok \/ ~IsOp(k.rest, ":") THEN EntryFail
    ELSE EntryAfterValue(k, ParseExpr(Tail(k.rest)))

\* One entry  key : value  of a dict display.
ParseEntry(ts) == EntryAfterKey(ParseExpr(ts))

\* The entries of a dict display, after "{" and the entries in ks, vs.
ParseDictItems(ts, ks, vs) ==
    IF IsOp(ts, "}") THEN ParseOk(Node("Dict", "", VNone, ks, vs), Tail(ts))
    ELSE DictItemsAfter(ParseEntry(ts), ks, vs)

\* The dict display goes on after the entry parsed as e.
DictItemsAfter(e, ks, vs) ==
    CASE ~e.ok -> ParseFail
      [] IsOp(e.rest, ",") ->
             ParseDictItems(Tail(e.rest), Append(ks, e.key), Append(vs, e.value))
      [] IsOp(e.rest, "}") ->
             ParseOk(Node("Dict", "", VNone, Append(ks, e.key), Append(vs, e.value)),
                     Tail(e.rest))
      [] OTHER -> ParseFail

ParseExpr(ts) ==
    CASE ts = <<>> -> ParseFail
      [] IsOp(ts, "-") -> Minus(ParseExpr(Tail(ts)))
      [] IsOp(ts, "[") -> ParseListItems(Tail(ts), <<>>)
      [] IsOp(ts, "{") -> ParseDictItems(Tail(ts), <<>>, <<>>)
      [] ts # <<>> /\ Head(ts).k \in {"num", "str", "name"} ->
             ParseTrailers(AtomNode(Head(ts)), Tail(ts))
      [] OTHER -> ParseFail

(***************************************************************************)
(* A statement is an expression or an assignment  t1 = t2 = ... = value ;  *)
(* a target must be a name or an attribute.  A statement ends its line.    *)
(* A module is a sequence of statements; a result is [ok, body].           *)
(***************************************************************************)
Stmt(k, targets, value) == [k |-> k, targets |-> targets, value |-> value]

IsTarget(node) == node.k \in {"Name", "Attribute"}

StmtFail == [ok |-> FALSE, stmt |-> Stmt("", <<>>, NoNode), rest |-> <<>>]

RECURSIVE ParseStmt(_, _)
RECURSIVE StmtAfter(_, _)
ParseStmt(ts, targets) == StmtAfter(ParseExpr(ts), targets)

\* The statement goes on after the expression parsed as r.
StmtAfter(r, targets) ==
    CASE ~r.ok -> StmtFail
      [] IsOp(r.rest, "=") /\ IsTarget(r.node) ->
             ParseStmt(Tail(r.rest), Append(targets, r.node))
      [] r.rest # <<>> /\ Head(r.rest).k = "nl" ->
             [ok |-> TRUE,
              stmt |-> Stmt(IF targets = <<>> THEN "Expr" ELSE "Assign",
                            targets, r.node),
              rest |-> Tail(r.rest)]
      [] OTHER -> StmtFail

RECURSIVE ParseBody(_, _)
RECURSIVE BodyAfter(_, _)
ParseBody(ts, acc) ==
    IF ts = <<>> THEN [ok |-> TRUE, body |-> acc]
    ELSE BodyAfter(ParseStmt(ts, <<>>), acc)

\* The module goes on after the statement parsed as r.
BodyAfter(r, acc) ==
    IF r.ok THEN ParseBody(r.rest, Append(acc, r.stmt))
    ELSE [ok |-> FALSE, body |-> <<>>]

AstParse(source) == ParseBody(source, <<>>)

(***************************************************************************)
(* ast.literal_eval: constants, a minus sign before an int or float        *)
(* constant, list and dict displays of such; anything else (a name, a      *)
(* call, an attribute) is a malformed node.  The data model's dict keys    *)
(* are strings, and a later duplicate key replaces the earlier value.      *)
(* A result is [ok, val].                                                  *)
(***************************************************************************)
EvalFail == [ok |-> FALSE, val |-> VNone]

RECURSIVE ZipDict(_, _, _)
ZipDict(ks, vs, d) ==
    IF ks = <<>> THEN d
    ELSE ZipDict(Tail(ks), Tail(vs), PutV(d, Head(ks).s, Head(vs)))

RECURSIVE LiteralEval(_)
\* The converted nodes rs, together: [ok, vals].
AllOk(rs) ==
    IF \A i \in 1..Len(rs) : rs[i].ok
    THEN [ok |-> TRUE, vals |-> [i \in 1..Len(rs) |-> rs[i].val]]
    ELSE [ok |-> FALSE, vals |-> <<>>]

\* The nodes converted one by one.
EvalSeq(nodes) == AllOk([i \in 1..Len(nodes) |-> LiteralEval(nodes[i])])

EvalNegative(operand) ==
    IF operand.k = "Constant" /\ operand.v.t \in {"int", "float"}
    THEN [ok |-> TRUE, val |-> Negate(operand.v)]
    ELSE EvalFail

EvalList(r) == IF r.ok THEN [ok |-> TRUE, val |-> VList(r.vals)] ELSE EvalFail

EvalDict(ks, vs) ==
    IF ks.ok /\ vs.ok /\ \A i \in 1..Len(ks.vals) : ks.vals[i].t = "str"
    THEN [ok |-> TRUE, val |-> ZipDict(ks.vals, vs.vals, EmptyDict)]
    ELSE EvalFail

LiteralEval(node) ==
    CASE node.k = "Constant" -> [ok |-> TRUE, val |-> node.v]
      [] node.k = "UnaryOp" -> EvalNegative(node.kids[1])
      [] node.k = "List" -> EvalList(EvalSeq(node.kids))
      [] node.k = "Dict" -> EvalDict(EvalSeq(node.keys), EvalSeq(node.kids))
      [] OTHER -> EvalFail

(***************************************************************************)
(* extract_first_dict_schema(path): the first top-level assignment whose   *)
(* value is a dict display and that has a name among its targets.          *)
(* A result is [status, name, value]: status "ok", or the raised           *)
(* "ValueError".                                                           *)
(***************************************************************************)
Extracted(status, name, value) == [status |-> status, name |-> name, value |-> value]

FirstName(targets) ==
    IF \E i \in 1..Len(targets) : targets[i].k = "Name"
    THEN LET i == CHOOSE j \in 1..Len(targets) :
                      /\ targets[j].k = "Name"
                      /\ \A l \in 1..(j - 1) : targets[l].k # "Name"
         IN  targets[i].s
    ELSE ""

RECURSIVE FirstDictIn(_)
RECURSIVE FirstDictAfter(_, _, _)
FirstDictIn(body) ==
    IF body = <<>> THEN Extracted("ValueError", "", VNone)
    ELSE IF /\ Head(body).k = "Assign"
            /\ Head(body).value.k = "Dict"
            /\ FirstName(Head(body).targets) # ""
         THEN FirstDictAfter(FirstName(Head(body).targets),
                             LiteralEval(Head(body).value), Tail(body))
         ELSE FirstDictIn(Tail(body))

\* The dict display bound to target_name evaluated as r; rest follows it.
FirstDictAfter(target_name, r, rest) ==
    IF ~r.ok THEN Extracted("ValueError", "", VNone)
    ELSE IF r.val.t # "dict" THEN FirstDictIn(rest)
    ELSE Extracted("ok", target_name, r.val)

\* What the Loader makes of a parsed module.
FromTree(tree) ==
    IF ~tree.ok THEN Extracted("ValueError", "", VNone)
    ELSE FirstDictIn(tree.body)

\* A loader that answers an empty mapping where the code raises.
ExtractOrEmpty(source) ==
    LET found == FromTree(AstParse(source))
    IN  IF found.status # "ok" THEN Extracted("ok", "", EmptyDict) ELSE found

extract_first_dict_schema(source) == FromTree(AstParse(source))

(***************************************************************************)
(* Diagnostic lines (standard output).  kind is the classification of a    *)
(* key ("only1", "only2", "identical", "difference") or names one of the   *)
(* other prints; the remaining fields are the detail lines printed under   *)
(* DIFFERENCE DETECTED.                                                    *)
(***************************************************************************)
Line(kind, key, d1, d2, typeDiff, only1, only2, diffs) ==
    [kind |-> kind, key |-> key, d1 |-> d1, d2 |-> d2, typeDiff |-> typeDiff,
     only1 |-> only1, only2 |-> only2, diffs |-> diffs]

NoDesc == [k |-> "", v |-> VNone]

Plain(kind, key) == Line(kind, key, NoDesc, NoDesc, <<>>, <<>>, <<>>, <<>>)

TypeName(h, v) ==
    IF v.t = "ref" THEN h[v.n].t
    ELSE IF v.t = "none" THEN "NoneType"
    ELSE v.t

describe_schema_type(h, val) ==
    IF IsDict(h, val) /\ DictHas(h, val, "type")
    THEN [k |-> "schema_type", v |-> Deref(h, DictGet(h, val, "type"))]
    ELSE [k |-> "pytype", v |-> VStr(TypeName(h, val))]

\* v.get("type")
GetType(h, v) == IF DictHas(h, v, "type") THEN Deref(h, DictGet(h, v, "type")) ELSE VNone

RECURSIVE SubkeyDiffs(_, _, _, _)
SubkeyDiffs(h, v1, v2, shared) ==
    IF shared = <<>> THEN <<>>
    ELSE LET k == Head(shared)
             a == DictGet(h, v1, k)
             b == DictGet(h, v2, k)
         IN  (IF HeapEq(h, a, b) THEN <<>>
              ELSE << [k |-> k, a |-> Deref(h, a), b |-> Deref(h, b)] >>)
             \o SubkeyDiffs(h, v1, v2, Tail(shared))

\* The report of one conflicting key.
DifferenceLine(h, key, v1, v2) ==
    IF IsDict(h, v1) /\ IsDict(h, v2)
    THEN LET type1 == GetType(h, v1)
             type2 == GetType(h, v2)
             keys_v1 == SeqToSet(h[v1.n].keys)
             keys_v2 == SeqToSet(h[v2.n].keys)
         IN  Line("difference", key,
                  describe_schema_type(h, v1), describe_schema_type(h, v2),
                  IF ~PyEq(type1, type2) THEN <<type1, type2>> ELSE <<>>,
                  Sorted(keys_v1 \ keys_v2),
                  Sorted(keys_v2 \ keys_v1),
                  SubkeyDiffs(h, v1, v2, Sorted(keys_v1 \cap keys_v2)))
    ELSE Line("difference", key,
              describe_schema_type(h, v1), describe_schema_type(h, v2),
              <<>>, <<>>, <<>>, <<>>)

(***************************************************************************)
(* compare_and_merge_schemas(schema1, schema2, label1, label2)             *)
(***************************************************************************)
AllKeysUnsorted(h, schema1, schema2) ==
    h[schema1.n].keys
    \o SelectSeq(h[schema2.n].keys, LAMBDA k : k \notin SeqToSet(h[schema1.n].keys))

AllKeysOfFirst(h, schema1, schema2) == Sorted(SeqToSet(h[schema1.n].keys))

\* all_keys = sorted(keys1 | keys2)
AllKeys(h, schema1, schema2) ==
    Sorted(SeqToSet(h[schema1.n].keys) \cup SeqToSet(h[schema2.n].keys))

PreferSecond(v1, v2) == v2

\* combined[key] = v1  # prefer first file
PreferFirst(v1, v2) == v1

TakeSecondFromFirst(h, schema1, schema2, key) ==
    IF DictHas(h, schema1, key) THEN DictGet(h, schema1, key) ELSE VNone

\* combined[key] = schema2[key]
TakeSecond(h, schema1, schema2, key) == DictGet(h, schema2, key)

\* One turn of the loop: the value stored at key and the lines printed.
MergeEntry(h, schema1, schema2, key) ==
    LET in1 == DictHas(h, schema1, key)
        in2 == DictHas(h, schema2, key)
    IN  IF in1 /\ ~in2
        THEN [val |-> DictGet(h, schema1, key), line |-> Plain("only1", key)]
        ELSE IF in2 /\ ~in1
        THEN [val |-> TakeSecond(h, schema1, schema2, key), line |-> Plain("only2", key)]
        ELSE LET v1 == DictGet(h, schema1, key)
                 v2 == DictGet(h, schema2, key)
             IN  IF HeapEq(h, v1, v2)
                 THEN [val |-> v1, line |-> Plain("identical", key)]
                 ELSE [val |-> PreferFirst(v1, v2),
                       line |-> DifferenceLine(h, key, v1, v2)]

RECURSIVE MergeLoop(_, _, _, _, _, _)
MergeLoop(h, schema1, schema2, combined, keys, lg) ==
    IF keys = <<>> THEN [heap |-> h, log |-> lg]
    ELSE LET e == MergeEntry(h, schema1, schema2, Head(keys))
         IN  MergeLoop(DictSet(h, combined, Head(keys), e.val), schema1, schema2,
                       combined, Tail(keys), Append(lg, e.line))

\* A result is [heap, val, log]: the new heap, the combined dict, the lines.
compare_and_merge_schemas(h, schema1, schema2) ==
    LET combined == VRef(Len(h) + 1)
        h1 == Append(h, EmptyDict)
        r  == MergeLoop(h1, schema1, schema2, combined,
                        AllKeys(h1, schema1, schema2), <<Plain("comparing", "")>>)
    IN  [heap |-> r.heap, val |-> combined,
         log |-> Append(r.log, Plain("complete", ""))]

(***************************************************************************)
(* locate_properties(schema): a result is [props, loc].                    *)
(***************************************************************************)
LocSchemaProperties == <<"schema", "properties">>

LocProperties == <<"properties">>

LocNone == <<>>

HasDictAt(h, d, k) == DictHas(h, d, k) /\ IsDict(h, DictGet(h, d, k))

LocatePropertiesFirst(h, schema) ==
    IF IsDict(h, schema) /\ HasDictAt(h, schema, "properties")
    THEN [props |-> DictGet(h, schema, "properties"), loc |-> LocProperties]
    ELSE IF /\ IsDict(h, schema)
            /\ HasDictAt(h, schema, "schema")
            /\ HasDictAt(h, DictGet(h, schema, "schema"), "properties")
    THEN [props |-> DictGet(h, DictGet(h, schema, "schema"), "properties"),
          loc |-> LocSchemaProperties]
    ELSE [props |-> schema, loc |-> LocNone]

locate_properties(h, schema) ==
    IF /\ IsDict(h, schema)
       /\ HasDictAt(h, schema, "schema")
       /\ HasDictAt(h, DictGet(h, schema, "schema"), "properties")
    THEN [props |-> DictGet(h, DictGet(h, schema, "schema"), "properties"),
          loc |-> LocSchemaProperties]
    ELSE IF IsDict(h, schema) /\ HasDictAt(h, schema, "properties")
    THEN [props |-> DictGet(h, schema, "properties"), loc |-> LocProperties]
    ELSE [props |-> schema, loc |-> LocNone]

(***************************************************************************)
(* build_combined_schema_from_first(schema1, combined_props, location):    *)
(* a result is [heap, val].                                                *)
(***************************************************************************)
NoCopy(h, v) == [heap |-> h, val |-> v]

\* copy.deepcopy(v): new containers with the same contents
DeepCopy(h, v) == Store(h, Deref(h, v))

BuildReplacingSchema(h, schema1, combined_props, location) ==
    IF location = LocNone THEN [heap |-> h, val |-> combined_props]
    ELSE LET c == DeepCopy(h, schema1)
             fresh == VRef(Len(c.heap) + 1)
             h1 == Append(c.heap, VDict(<<"properties">>, <<combined_props>>))
         IN  IF location = LocSchemaProperties
             THEN [heap |-> DictSet(h1, c.val, "schema", fresh), val |-> c.val]
             ELSE [heap |-> DictSet(c.heap, c.val, "properties", combined_props),
                   val |-> c.val]

build_combined_schema_from_first(h, schema1, combined_props, location) ==
    IF location = LocNone THEN [heap |-> h, val |-> combined_props]
    ELSE LET c == DeepCopy(h, schema1)
         IN  IF location = LocSchemaProperties
             THEN [heap |-> DictSet(c.heap, DictGet(c.heap, c.val, "schema"),
                                    "properties", combined_props),
                   val |-> c.val]
             ELSE IF location = LocProperties
             THEN [heap |-> DictSet(c.heap, c.val, "properties", combined_props),
                   val |-> c.val]
             ELSE [heap |-> c.heap, val |-> combined_props]

(***************************************************************************)
(* Files.  A file is [exists, text]; text is its token sequence.           *)
(***************************************************************************)
File(text) == [exists |-> TRUE, text |-> text]

NoFile == [exists |-> FALSE, text |-> <<>>]

\* A schema file as the docstring describes it:  <name> = { ... }
SchemaSource(name, v) == <<NameTok(name), Op("=")>> \o PFormat(v, FALSE) \o <<NL>>

TypeIs(s) == VDict(<<"type">>, <<VStr(s)>>)

PropsA1 == VDict(<<"x">>, <<TypeIs("int")>>)

PropsA2 == VDict(<<"x", "y">>, <<TypeIs("str"), TypeIs("bool")>>)

SchemaC1 ==
    VDict(<<"name", "type", "schema">>,
          <<VStr("s1"), VInt(3),
            VDict(<<"properties">>, <<VDict(<<"a">>, <<VInt(1)>>)>>)>>)

SchemaC2 ==
    VDict(<<"schema">>,
          <<VDict(<<"properties">>, <<VDict(<<"a", "b">>, <<VInt(2), VInt(3)>>)>>)>>)

SchemaFull ==
    VDict(<<"name", "schema", "properties">>,
          <<VStr("s1"),
            VDict(<<"description", "properties">>, <<VStr("d"), PropsA1>>),
            VDict(<<"b">>, <<VInt(1)>>)>>)

SchemaProps == VDict(<<"name", "properties">>, <<VStr("s2"), PropsA2>>)

SchemaIntSchema == VDict(<<"schema", "properties">>, <<VInt(3), PropsA1>>)

SchemaNoProps ==
    VDict(<<"schema", "x">>, <<VDict(<<"type">>, <<VStr("object")>>), VInt(1)>>)

SchemaPropsInt ==
    VDict(<<"schema", "properties">>,
          <<VDict(<<"properties">>, <<VInt(3)>>),
            VDict(<<"y">>, <<VList(<<VInt(1), VInt(-1)>>)>>)>>)

SchemaFlat == VDict(<<"properties", "b">>, <<VInt(3), VFloat(15)>>)

Schemas ==
    { PropsA1, PropsA2, SchemaC1, SchemaC2, SchemaFull, SchemaProps,
      SchemaIntSchema, SchemaNoProps, SchemaPropsInt, SchemaFlat }

\* s = {            (the display is never closed)
SyntaxErrorText == <<NameTok("s"), Op("="), Op("{"), NL>>

\* y = 3 ; f() ; z = [1]
NoDictText ==
    << NameTok("y"), Op("="), NumTok(VInt(3)), NL,
       NameTok("f"), Op("("), Op(")"), NL,
       NameTok("z"), Op("="), Op("["), NumTok(VInt(1)), Op("]"), NL >>

\* s = {"a": f()}
NonLiteralText ==
    << NameTok("s"), Op("="), Op("{"), StrTok("a"), Op(":"),
       NameTok("f"), Op("("), Op(")"), Op("}"), NL >>

\* o.t = {"name": "s1"} ; y = 3 ; s = t = <SchemaC1>
SkippedTargetText ==
    << NameTok("o"), Op("."), NameTok("t"), Op("="),
       Op("{"), StrTok("name"), Op(":"), StrTok("s1"), Op("}"), NL,
       NameTok("y"), Op("="), NumTok(VInt(3)), NL,
       NameTok("s"), Op("=") >> \o SchemaSource("t", SchemaC1)

\* o.t = {"name": "s1"}
OnlyAttributeText ==
    << NameTok("o"), Op("."), NameTok("t"), Op("="),
       Op("{"), StrTok("name"), Op(":"), StrTok("s1"), Op("}"), NL >>

InputFiles ==
    {NoFile}
    \cup {File(SchemaSource("s", m)) : m \in Schemas}
    \cup {File(t) : t \in {<<>>, SyntaxErrorText, NoDictText, NonLiteralText,
                           SkippedTargetText, OnlyAttributeText}}

\* The contents of an output file that is already there.
OldText == SchemaSource("kept", PropsA1)

\* args.output_name: the stem of the output file name, and whether it
\* matches ^[A-Za-z_]\w*$ .
OutputNames ==
    { [stem |-> "combined_schema", ident |-> TRUE],
      [stem |-> "my-schema", ident |-> FALSE] }

sanitize_var_name(name) == IF name.ident THEN name.stem ELSE "combined_schema"

(***************************************************************************)
(* The state of one run of main.                                           *)
(***************************************************************************)
VARIABLES
    pc,               \* where main is
    heap,             \* the containers of the run
    file1, file2,     \* the files at path1 and path2
    out,              \* the file at out_path
    dirExists,        \* whether SCHEMAS_DIR exists
    name1, schema1, name2, schema2,
    props1, loc1, props2,
    combined_props, combined_schema,
    var_name, schema_text,
    log,              \* the lines printed
    exit,             \* "" while running, "ok", or the exception raised
    loaded1, loaded2, \* the values of schema1 and schema2 when loaded
    existedAtCheck,   \* "" before the check, then "yes" or "no"
    writes, mkdirs,   \* how often out_path was opened for writing, mkdir called
    run, prevLog, prevCombined,   \* a second merge of reordered inputs
    reloaded          \* the output file loaded again

inputs == <<file1, file2>>

loadedVars == <<name1, schema1, name2, schema2, loaded1, loaded2>>

locatedVars == <<props1, loc1, props2>>

outputVars == <<out, dirExists, var_name, schema_text, existedAtCheck, writes, mkdirs>>

rerunVars == <<run, prevLog, prevCombined>>

vars ==
    << pc, heap, inputs, loadedVars, locatedVars, combined_props, combined_schema,
       outputVars, log, exit, rerunVars, reloaded >>

NotLoaded == Extracted("", "", VNone)

NothingLoaded ==
    /\ name1 = "" /\ schema1 = VNone /\ name2 = "" /\ schema2 = VNone

NothingBuilt ==
    /\ combined_props = VNone /\ combined_schema = VNone
    /\ schema_text = <<>>
    /\ log = <<>> /\ exit = ""
    /\ writes = 0 /\ mkdirs = 0
    /\ run = 1 /\ prevLog = <<>> /\ prevCombined = VNone
    /\ reloaded = NotLoaded

Blank ==
    /\ heap = <<>>
    /\ NothingLoaded
    /\ loaded1 = VNone /\ loaded2 = VNone
    /\ props1 = VNone /\ loc1 = LocNone /\ props2 = VNone
    /\ var_name = "" /\ existedAtCheck = ""
    /\ NothingBuilt

Init ==
    /\ pc = "start"
    /\ file1 \in InputFiles
    /\ file2 \in InputFiles
    /\ out \in {NoFile, File(OldText)}
    /\ dirExists \in BOOLEAN
    /\ out.exists => dirExists
    /\ Blank

\* An exception that reaches the top level ends the run.
Raise(exc) == pc' = "done" /\ exit' = exc

\* lines 352-358: both inputs must exist
CheckInputs ==
    /\ pc = "start"
    /\ IF ~file1.exists \/ ~file2.exists
       THEN Raise("SystemExit")
       ELSE pc' = "load1" /\ exit' = exit
    /\ UNCHANGED << heap, inputs, loadedVars, locatedVars, combined_props,
                    combined_schema, outputVars, log, rerunVars, reloaded >>

\* line 360
Load1 ==
    /\ pc = "load1"
    /\ \E e \in {extract_first_dict_schema(file1.text)} :
           IF e.status # "ok"
           THEN /\ Raise(e.status)
                /\ UNCHANGED << heap, name1, schema1, loaded1 >>
           ELSE \E r \in {Store(heap, e.value)} :
                    /\ pc' = "load2" /\ exit' = exit
                    /\ heap' = r.heap /\ schema1' = r.val
                    /\ name1' = e.name /\ loaded1' = e.value
    /\ UNCHANGED << inputs, name2, schema2, loaded2, locatedVars, combined_props,
                    combined_schema, outputVars, log, rerunVars, reloaded >>

\* line 361
Load2 ==
    /\ pc = "load2"
    /\ \E e \in {extract_first_dict_schema(file2.text)} :
           IF e.status # "ok"
           THEN /\ Raise(e.status)
                /\ UNCHANGED << heap, name2, schema2, loaded2 >>
           ELSE \E r \in {Store(heap, e.value)} :
                    /\ pc' = "locate" /\ exit' = exit
                    /\ heap' = r.heap /\ schema2' = r.val
                    /\ name2' = e.name /\ loaded2' = e.value
    /\ UNCHANGED << inputs, name1, schema1, loaded1, locatedVars, combined_props,
                    combined_schema, outputVars, log, rerunVars, reloaded >>

\* lines 366-367
Locate ==
    /\ pc = "locate"
    /\ props1' = locate_properties(heap, schema1).props
    /\ loc1' = locate_properties(heap, schema1).loc
    /\ props2' = locate_properties(heap, schema2).props
    /\ pc' = "merge"
    /\ UNCHANGED << heap, inputs, loadedVars, combined_props, combined_schema,
                    outputVars, log, exit, rerunVars, reloaded >>

\* line 369
Merge ==
    /\ pc = "merge"
    /\ LET r == compare_and_merge_schemas(heap, props1, props2)
       IN  /\ heap' = r.heap
           /\ combined_props' = r.val
           /\ log' = log \o r.log
    /\ pc' = "build"
    /\ UNCHANGED << inputs, loadedVars, locatedVars, combined_schema, outputVars,
                    exit, rerunVars, reloaded >>

\* line 372
Build ==
    /\ pc = "build"
    /\ run = 1
    /\ LET r == build_combined_schema_from_first(heap, schema1, combined_props, loc1)
       IN  heap' = r.heap /\ combined_schema' = r.val
    /\ pc' = "check"
    /\ UNCHANGED << inputs, loadedVars, locatedVars, combined_props, outputVars,
                    log, exit, rerunVars, reloaded >>

NeverAbort(o) == FALSE

\* line 385: if out_path.exists()
MustAbort(o) == o.exists

\* lines 375-393: the output name, then the check that never overwrites
SafetyCheck ==
    /\ pc = "check"
    /\ \E output_name \in OutputNames :
           var_name' = sanitize_var_name(output_name)
    /\ IF MustAbort(out)
       THEN /\ log' = Append(log, Plain("exists_error", ""))
            /\ Raise("FileExistsError")
       ELSE /\ pc' = "format"
            /\ UNCHANGED << log, exit >>
    /\ existedAtCheck' = IF out.exists THEN "yes" ELSE "no"
    /\ UNCHANGED << heap, inputs, loadedVars, locatedVars, combined_props,
                    combined_schema, out, dirExists, schema_text, writes, mkdirs,
                    rerunVars, reloaded >>

\* lines 397-401
Format ==
    /\ pc = "format"
    /\ schema_text' = PFormat(Deref(heap, combined_schema), FALSE)
    /\ pc' = "mkdir"
    /\ UNCHANGED << heap, inputs, loadedVars, locatedVars, combined_props,
                    combined_schema, out, dirExists, var_name, existedAtCheck,
                    writes, mkdirs, log, exit, rerunVars, reloaded >>

\* line 403
Mkdir ==
    /\ pc = "mkdir"
    /\ dirExists' = TRUE
    /\ mkdirs' = mkdirs + 1
    /\ pc' = "write"
    /\ UNCHANGED << heap, inputs, loadedVars, locatedVars, combined_props,
                    combined_schema, out, var_name, schema_text, existedAtCheck,
                    writes, log, exit, rerunVars, reloaded >>

\* lines 404-412: the header lines are comments, which are no tokens
WriteOut ==
    /\ pc = "write"
    /\ out' = File(<<NameTok(var_name), Op("=")>> \o schema_text \o <<NL>>)
    /\ writes' = writes + 1
    /\ log' = Append(log, Plain("written", ""))
    /\ pc' = "done"
    /\ exit' = "ok"
    /\ UNCHANGED << heap, inputs, loadedVars, locatedVars, combined_props,
                    combined_schema, dirExists, var_name, schema_text,
                    existedAtCheck, mkdirs, rerunVars, reloaded >>

Next ==
    \/ CheckInputs
    \/ Load1
    \/ Load2
    \/ Locate
    \/ Merge
    \/ Build
    \/ SafetyCheck
    \/ Format
    \/ Mkdir
    \/ WriteOut

Spec == Init /\ [][Next]_vars
(***************************************************************************)
(* The Merger on its own: compare_and_merge_schemas applied to every pair  *)
(* of properties mappings of at most MaxKeys keys, first with the keys     *)
(* inserted in ascending order, then again with the same entries inserted  *)
(* in any other order.                                                     *)
(***************************************************************************)
MaxKeys == 2

MergeKeyNames == {"a", "b", "x"}

TypedInt ==
    VDict(<<"type", "fmt", "x">>, <<VStr("int"), VInt(1), VList(<<VInt(1)>>)>>)

\* == to TypedInt: the same entries in another order, True for 1.
TypedIntAgain ==
    VDict(<<"fmt", "x", "type">>, <<VBool(TRUE), VList(<<VInt(1)>>), VStr("int")>>)

TypedStr ==
    VDict(<<"fmt", "type", "a">>, <<VBool(TRUE), VStr("str"), VInt(2)>>)

\* The values a key may hold: scalars that are == across types or differ,
\* mappings that are == or differ in sub-keys, a scalar against a mapping.
MergeValues(key) ==
    CASE key = "a" -> {VInt(1), VBool(TRUE), VInt(2)}
      [] key = "b" -> {TypedInt, TypedIntAgain, TypedStr}
      [] OTHER -> {VInt(1), TypedInt, VList(<<VInt(1)>>)}

\* The mappings with the keys of ks, inserted in that order.
DictsOver(ks) ==
    LET all == UNION {MergeValues(k) : k \in MergeKeyNames}
    IN  {VDict(ks, items) :
             items \in {f \in [1..Len(ks) -> all] :
                            \A i \in 1..Len(ks) : f[i] \in MergeValues(ks[i])}}

SortedProps ==
    UNION {DictsOver(Sorted(K)) :
               K \in {S \in SUBSET MergeKeyNames : Cardinality(S) <= MaxKeys}}

\* The same entries in every insertion order.
Reorderings(d) ==
    LET n == Len(d.keys)
        perms == {f \in [1..n -> 1..n] : \A i, j \in 1..n : i # j => f[i] # f[j]}
    IN  {VDict([i \in 1..n |-> d.keys[f[i]]], [i \in 1..n |-> d.items[f[i]]]) :
             f \in perms}

InitMerge ==
    /\ pc = "merge"
    /\ \E p1 \in SortedProps, p2 \in SortedProps :
           LET r1 == Store(<<>>, p1)
               r2 == Store(r1.heap, p2)
           IN  /\ heap = r2.heap
               /\ props1 = r1.val /\ props2 = r2.val
               /\ loaded1 = p1 /\ loaded2 = p2
    /\ file1 = NoFile /\ file2 = NoFile /\ out = NoFile /\ dirExists = FALSE
    /\ NothingLoaded
    /\ loc1 = LocNone
    /\ var_name = "" /\ existedAtCheck = ""
    /\ NothingBuilt

\* The merge is run again on the same entries inserted in another order.
Rerun ==
    /\ pc = "build"
    /\ run = 1
    /\ \E q1 \in Reorderings(loaded1), q2 \in Reorderings(loaded2) :
           LET r1 == Store(<<>>, q1)
               r2 == Store(r1.heap, q2)
           IN  /\ heap' = r2.heap
               /\ props1' = r1.val /\ props2' = r2.val
               /\ loaded1' = q1 /\ loaded2' = q2
    /\ prevLog' = log
    /\ prevCombined' = Deref(heap, combined_props)
    /\ log' = <<>>
    /\ combined_props' = VNone
    /\ run' = 2
    /\ pc' = "merge"
    /\ UNCHANGED << inputs, name1, schema1, name2, schema2, loc1, combined_schema,
                    outputVars, exit, reloaded >>

NextMerge ==
    \/ Merge
    \/ Rerun

SpecMerge == InitMerge /\ [][NextMerge]_vars

(***************************************************************************)
(* The Serializer and the Loader together: main's rendering of a mapping   *)
(* is written to the output file, and the file is loaded again.            *)
(***************************************************************************)
MaxListLen == 1

Atoms ==
    { VNone, VBool(TRUE), VBool(FALSE), VInt(0), VInt(1), VInt(-1),
      VFloat(15), VFloat(-15), VInf(1), VInf(-1), VStr("s") }

ListsUpTo(n) == UNION {{VList(items) : items \in [1..k -> Atoms]} : k \in 0..n}

InnerValues ==
    Atoms \cup ListsUpTo(MaxListLen) \cup {EmptyDict}
    \cup {VDict(<<"x">>, <<v>>) : v \in Atoms}

SerValues ==
    {EmptyDict}
    \cup {VDict(<<"a">>, <<v>>) : v \in InnerValues}
    \cup {VDict(<<"b", "a">>, <<v, w>>) : v \in InnerValues, w \in Atoms}

InitSer ==
    /\ pc = "format"
    /\ \E m \in SerValues :
           /\ heap = Store(<<>>, m).heap
           /\ combined_schema = Store(<<>>, m).val
           /\ loaded1 = m
    /\ file1 = NoFile /\ file2 = NoFile /\ out = NoFile
    /\ dirExists \in BOOLEAN
    /\ NothingLoaded
    /\ loaded2 = VNone
    /\ props1 = VNone /\ loc1 = LocNone /\ props2 = VNone
    /\ combined_props = VNone
    /\ var_name \in {sanitize_var_name(n) : n \in OutputNames}
    /\ existedAtCheck = "no"
    /\ schema_text = <<>>
    /\ log = <<>> /\ exit = ""
    /\ writes = 0 /\ mkdirs = 0
    /\ run = 1 /\ prevLog = <<>> /\ prevCombined = VNone
    /\ reloaded = NotLoaded

\* extract_first_dict_schema(out_path), once the run has written it
Reload ==
    /\ pc = "done"
    /\ exit = "ok"
    /\ reloaded' = extract_first_dict_schema(out.text)
    /\ pc' = "reloaded"
    /\ UNCHANGED << heap, inputs, loadedVars, locatedVars, combined_props,
                    combined_schema, outputVars, log, exit, rerunVars >>

NextSer ==
    \/ Format
    \/ Mkdir
    \/ WriteOut
    \/ Reload

SpecSer == InitSer /\ [][NextSer]_vars

(***************************************************************************)
(* Properties of the Merger (checked under SpecMerge).  loaded1, loaded2   *)
(* are the two inputs as given; the merge has returned when pc = "build".  *)
(***************************************************************************)
Merged == Deref(heap, combined_props)

Keys1 == SeqToSet(loaded1.keys)

Keys2 == SeqToSet(loaded2.keys)

MergeReturned == pc = "build"

\* C1: the merged mapping's key set is exactly keys(p1) union keys(p2): no
\* key of either input is dropped, none absent from both is introduced.
C1_MergedKeysAreUnion ==
    MergeReturned =>
        /\ SeqToSet(Merged.keys) = Keys1 \cup Keys2
        /\ Len(Merged.keys) = Cardinality(Keys1 \cup Keys2)

\* A merge of inputs with a key only in p1, a key only in p2 and a shared key.
C1_Witness ==
    /\ MergeReturned
    /\ Keys1 \ Keys2 # {} /\ Keys2 \ Keys1 # {} /\ Keys1 \cap Keys2 # {}

\* C2: first-file-wins: for every key in both inputs whose values are
\* unequal, the merged value is input 1's whole value (the very object),
\* never input 2's, with no sub-key of input 2's value blended in.
C2_FirstFileWins ==
    MergeReturned =>
        \A k \in Keys1 \cap Keys2 :
            GetV(loaded1, k) # GetV(loaded2, k) =>
                /\ GetV(Merged, k) = GetV(loaded1, k)
                /\ GetV(Merged, k) # GetV(loaded2, k)
                /\ DictGet(heap, combined_props, k) = DictGet(heap, props1, k)

\* A conflict between two mappings that share a sub-key with different
\* values and each have a sub-key the other lacks.
C2_Witness ==
    /\ MergeReturned
    /\ \E k \in Keys1 \cap Keys2 :
           LET v1 == GetV(loaded1, k)
               v2 == GetV(loaded2, k)
           IN  /\ v1.t = "dict" /\ v2.t = "dict"
               /\ SeqToSet(v2.keys) \ SeqToSet(v1.keys) # {}
               /\ SeqToSet(v1.keys) \ SeqToSet(v2.keys) # {}
               /\ \E sk \in SeqToSet(v1.keys) \cap SeqToSet(v2.keys) :
                      ~PyEq(GetV(v1, sk), GetV(v2, sk))

\* C3: a key only in input 1 gets input 1's value, a key only in input 2
\* gets input 2's value, a key in both with equal values gets that value.
C3_NoConflictValues ==
    MergeReturned =>
        /\ \A k \in Keys1 \ Keys2 : GetV(Merged, k) = GetV(loaded1, k)
        /\ \A k \in Keys2 \ Keys1 : GetV(Merged, k) = GetV(loaded2, k)
        /\ \A k \in Keys1 \cap Keys2 :
               PyEq(GetV(loaded1, k), GetV(loaded2, k)) =>
                   /\ GetV(Merged, k) = GetV(loaded1, k)
                   /\ PyEq(GetV(Merged, k), GetV(loaded2, k))

\* One merge with all three cases: a key only in p1, a key only in p2 and a
\* shared key whose values are == without being written alike.
C3_Witness ==
    /\ MergeReturned
    /\ Keys1 \ Keys2 # {} /\ Keys2 \ Keys1 # {}
    /\ \E k \in Keys1 \cap Keys2 :
           /\ PyEq(GetV(loaded1, k), GetV(loaded2, k))
           /\ GetV(loaded1, k) # GetV(loaded2, k)

\* The classification lines: what is printed between the heading and
\* "Merge complete.".
ClassificationLines == SubSeq(log, 2, Len(log) - 1)

KindOf(k) ==
    IF k \in Keys1 \ Keys2 THEN "only1"
    ELSE IF k \in Keys2 \ Keys1 THEN "only2"
    ELSE IF PyEq(GetV(loaded1, k), GetV(loaded2, k)) THEN "identical"
    ELSE "difference"

\* C10: the union of keys is processed in ascending order with exactly one
\* classification line per key, in that order; inputs that differ only in
\* the insertion order of the mappings' keys give the identical diagnostic
\* sequence and the identical merged mapping; a conflict never aborts the
\* merge: a complete merged mapping is always returned.
C10_SortedDeterministic ==
    MergeReturned =>
        LET order == Sorted(Keys1 \cup Keys2)
        IN  /\ Len(ClassificationLines) = Len(order)
            /\ \A i \in 1..Len(order) :
                   /\ ClassificationLines[i].key = order[i]
                   /\ ClassificationLines[i].kind = KindOf(order[i])
            /\ Merged.keys = order
            /\ run = 2 => (log = prevLog /\ Merged = prevCombined)

\* A second merge, of inputs whose keys were inserted in descending order,
\* that met a conflict.
C10_Witness ==
    /\ MergeReturned
    /\ run = 2
    /\ Len(loaded1.keys) = 2 /\ loaded1.keys # Sorted(Keys1)
    /\ Len(loaded2.keys) = 2 /\ loaded2.keys # Sorted(Keys2)
    /\ \E i \in 1..Len(ClassificationLines) :
           ClassificationLines[i].kind = "difference"

(***************************************************************************)
(* Properties of the pipeline (checked under Spec).                        *)
(***************************************************************************)
Located ==
    \/ pc \in {"merge", "build", "check", "format", "mkdir", "write"}
    \/ pc = "done" /\ existedAtCheck # ""

Built ==
    \/ pc \in {"check", "format", "mkdir", "write"}
    \/ pc = "done" /\ existedAtCheck # ""

\* m["schema"]["properties"] is a mapping
NestedProps(m) ==
    /\ HasKey(m, "schema")
    /\ HasKey(GetV(m, "schema"), "properties")
    /\ GetV(GetV(m, "schema"), "properties").t = "dict"

\* m["properties"] is a mapping
TopProps(m) == HasKey(m, "properties") /\ GetV(m, "properties").t = "dict"

\* The tag and the substructure the priority order asks for.
ExpectedLoc(m) ==
    IF NestedProps(m) THEN LocSchemaProperties
    ELSE IF TopProps(m) THEN LocProperties
    ELSE LocNone

ValueAt(m, loc) ==
    IF loc = LocSchemaProperties THEN GetV(GetV(m, "schema"), "properties")
    ELSE IF loc = LocProperties THEN GetV(m, "properties")
    ELSE m

ObjectAt(h, root, loc) ==
    IF loc = LocSchemaProperties
    THEN DictGet(h, DictGet(h, root, "schema"), "properties")
    ELSE IF loc = LocProperties THEN DictGet(h, root, "properties")
    ELSE root

\* C4: locate_properties always succeeds with a strict priority:
\* schema.properties if mapping["schema"]["properties"] is a mapping (even
\* beside a top-level "properties" mapping), else properties if
\* mapping["properties"] is a mapping, else the whole mapping with tag none;
\* what it returns is the value at the tag's path in the input.
C4_LocatePriority ==
    Located =>
        /\ loc1 = ExpectedLoc(loaded1)
        /\ props1 = ObjectAt(heap, schema1, loc1)
        /\ props2 = ObjectAt(heap, schema2, ExpectedLoc(loaded2))
        /\ pc = "merge" =>
               /\ Deref(heap, props1) = ValueAt(loaded1, ExpectedLoc(loaded1))
               /\ Deref(heap, props2) = ValueAt(loaded2, ExpectedLoc(loaded2))

\* The first mapping holds both a schema.properties mapping and a top-level
\* properties mapping, and the second has neither.
C4_Witness ==
    /\ pc = "merge"
    /\ NestedProps(loaded1) /\ TopProps(loaded1)
    /\ loc1 = LocSchemaProperties
    /\ ExpectedLoc(loaded2) = LocNone

SameExceptAt(c, m, key) ==
    /\ c.t = "dict"
    /\ c.keys = m.keys
    /\ \A k \in SeqToSet(m.keys) \ {key} : GetV(c, k) = GetV(m, k)

ScenarioCResult ==
    VDict(<<"name", "type", "schema">>,
          <<VStr("s1"), VInt(3),
            VDict(<<"properties">>,
                  <<VDict(<<"a", "b">>, <<VInt(1), VInt(3)>>)>>)>>)

\* C5: the rebuilt mapping is exactly the merged mapping for tag none; for
\* tag properties it is m1 with only the value at "properties" replaced by
\* the merged mapping; for tag schema.properties it is m1 with only the
\* value at schema.properties replaced, every other key of m1 and of
\* m1["schema"] keeping its value (scenario C of the spec included).
C5_RebuildFrame ==
    Built =>
        LET c == Deref(heap, combined_schema)
        IN  /\ loc1 = LocNone =>
                   combined_schema = combined_props /\ c = Merged
            /\ loc1 = LocProperties =>
                   /\ SameExceptAt(c, loaded1, "properties")
                   /\ GetV(c, "properties") = Merged
            /\ loc1 = LocSchemaProperties =>
                   /\ SameExceptAt(c, loaded1, "schema")
                   /\ SameExceptAt(GetV(c, "schema"), GetV(loaded1, "schema"),
                                   "properties")
                   /\ GetV(GetV(c, "schema"), "properties") = Merged
            /\ (loaded1 = SchemaC1 /\ loaded2 = SchemaC2) => c = ScenarioCResult

\* A rebuild at schema.properties of a mapping with other top-level keys and
\* other keys under "schema", where the merge changed the properties.
C5_Witness ==
    /\ Built
    /\ loc1 = LocSchemaProperties
    /\ Len(loaded1.keys) > 1
    /\ Len(GetV(loaded1, "schema").keys) > 1
    /\ Merged # ValueAt(loaded1, loc1)

\* C6: when the output path exists at the existence check, the run ends
\* with FileExistsError after printing the message, the output path is
\* never opened for writing and the existing file keeps its contents.
C6_NeverOverwritten ==
    /\ existedAtCheck = "yes" =>
           /\ pc = "done"
           /\ exit = "FileExistsError"
           /\ log # <<>> /\ log[Len(log)].kind = "exists_error"
           /\ writes = 0
           /\ out = File(OldText)
    /\ writes > 0 => existedAtCheck = "no"

\* A run with two loadable inputs that found the output file in place.
C6_Witness ==
    /\ existedAtCheck = "yes"
    /\ pc = "done"
    /\ schema1 # VNone /\ schema2 # VNone

\* No top-level binding whose value is a mapping literal.
NoDictBinding(body) ==
    \A i \in 1..Len(body) : ~(body[i].k = "Assign" /\ body[i].value.k = "Dict")

BadInput(f) ==
    \/ ~f.exists
    \/ ~AstParse(f.text).ok
    \/ NoDictBinding(AstParse(f.text).body)

\* C7: if either input is missing, cannot be parsed or has no top-level
\* binding of a mapping literal, the run ends with an error before the
\* output-existence check, before the schema directory is created and
\* before any file is opened for writing, whatever the other input is.
C7_InputErrorsAbortEarly ==
    (BadInput(file1) \/ BadInput(file2)) =>
        /\ pc \in {"start", "load1", "load2", "done"}
        /\ pc = "done" => exit \in {"SystemExit", "ValueError"}
        /\ existedAtCheck = ""
        /\ mkdirs = 0
        /\ writes = 0
        /\ combined_schema = VNone

\* The first input loaded, the second parses but binds no mapping literal,
\* and the run has ended.
C7_Witness ==
    /\ pc = "done"
    /\ exit = "ValueError"
    /\ schema1 # VNone
    /\ file2.exists /\ AstParse(file2.text).ok /\ file2.text # <<>>
    /\ NoDictBinding(AstParse(file2.text).body)

\* C9: no input mapping is mutated in place: after the Locator, the Merger
\* and the Rebuilder, m1, m2 and their located properties are as loaded, for
\* every location tag; the replacement is made in a copy of m1.
C9_InputsNotMutated ==
    /\ schema1 # VNone => Deref(heap, schema1) = loaded1
    /\ schema2 # VNone => Deref(heap, schema2) = loaded2
    /\ Located =>
           /\ Deref(heap, props1) = ValueAt(loaded1, ExpectedLoc(loaded1))
           /\ Deref(heap, props2) = ValueAt(loaded2, ExpectedLoc(loaded2))
    /\ (Built /\ loc1 # LocNone) =>
           /\ combined_schema # schema1
           /\ loc1 = LocSchemaProperties =>
                  DictGet(heap, combined_schema, "schema")
                      # DictGet(heap, schema1, "schema")

\* A rebuild at a nested path after a merge that changed the properties.
C9_Witness ==
    /\ Built
    /\ loc1 = LocSchemaProperties
    /\ Merged # ValueAt(loaded1, loc1)

(***************************************************************************)
(* The round trip of the Serializer (checked under SpecSer).               *)
(***************************************************************************)
\* C8: a mapping of primitives (string, integer, float, boolean, null),
\* sequences and nested mappings, serialised as main writes it and loaded
\* again with the Loader, is deep-equal to the original.
C8_RoundTrip ==
    pc = "reloaded" =>
        /\ reloaded.status = "ok"
        /\ PyEq(reloaded.value, loaded1)

\* Which mappings do come back: those without an infinite float.
RECURSIVE HasInf(_)
HasInf(v) ==
    \/ v.t = "float" /\ v.s = "inf"
    \/ \E i \in 1..Len(v.items) : HasInf(v.items[i])

C8_FiniteRoundTrip ==
    pc = "reloaded" =>
        IF HasInf(loaded1)
        THEN reloaded.status = "ValueError"
        ELSE reloaded.status = "ok" /\ reloaded.value = loaded1

=============================================================================
